---- MODULE Spec2Model ----
(***************************************************************************)
(* State-machine model of MoviesETL (src/movies_etl.py): one ETL run reads  *)
(* two CSV files, cleans them, left-joins them on id, upserts the unified   *)
(* rows into the MySQL table movies in batches, then builds and upserts the *)
(* per-genre and per-director counts.                                       *)
(*                                                                          *)
(* Representation.  An optional value is a sequence of length 0 or 1:       *)
(* <<>> is None/NaN/NaT/NULL and <<v>> is the value v.  A float is kept in  *)
(* tenths (1.5 is 15); int() of a float is its quotient by 10.  A raw CSV   *)
(* cell is a string; "" is an empty cell.                                   *)
(***************************************************************************)
EXTENDS Integers, Sequences, FiniteSets, TLC

VARIABLES
    top_file,           \* top_rated_path: [readable, rows] raw rows of the CSV
    gd_file,            \* id_genre_director_path: [readable, rows]
    batch_size,         \* argument of run()
    truncate,           \* argument of run()
    pc,                 \* position of run(): the step that comes next
    ret,                \* what the last run() returned: "none", "True", "False"
    clock,              \* number of the run in progress (CURRENT_TIMESTAMP)
    server,             \* the MySQL server: the three tables of db_config['database']
    txn,                \* the tables as seen by self.connection (uncommitted work)
    df_top_rated,       \* self.df_top_rated
    df_genre_director,  \* self.df_genre_director
    df_unified,         \* self.df_unified
    genre_stats,        \* self.genre_stats
    director_stats,     \* self.director_stats
    start_idx,          \* loop variable of load_to_mysql
    inserted,           \* counter of load_to_mysql
    errors,             \* counter of load_to_mysql
    batch_log,          \* one entry per batch attempted: what the logger reports
    prev                \* history: outcome of the last run that returned True

vars == <<top_file, gd_file, batch_size, truncate, pc, ret, clock, server, txn,
          df_top_rated, df_genre_director, df_unified, genre_stats,
          director_stats, start_idx, inserted, errors, batch_log, prev>>

(***************************************************************************)
(* Bounds of the model.                                                     *)
(***************************************************************************)
MaxTopRows == 2
MaxGdRows == 2
MaxBatchSize == 2
MaxRuns == 2

(***************************************************************************)
(* Optional values.                                                         *)
(***************************************************************************)
None == <<>>
Some(v) == <<v>>
notna(o) == o # None

(***************************************************************************)
(* Cell conversions of transform().                                         *)
(***************************************************************************)

\* The numeric literals of the model, in tenths.
NumLit == [c \in {"1", "1.0", "1.5", "2", "3", "7.5", "8.1", "500"} |->
             CASE c = "1" -> 10
               [] c = "1.0" -> 10
               [] c = "1.5" -> 15
               [] c = "2" -> 20
               [] c = "3" -> 30
               [] c = "7.5" -> 75
               [] c = "8.1" -> 81
               [] c = "500" -> 5000]

\* pd.to_numeric(..., errors='coerce'): a number, or NaN for anything else.
to_numeric(cell) == IF cell \in DOMAIN NumLit THEN Some(NumLit[cell]) ELSE None

\* The date literals of the model: two spellings of the same day.
DateLit == [c \in {"1999-05-01", "May 1, 1999"} |-> 19990501]

\* pd.to_datetime(..., errors='coerce'): a timestamp, or NaT.
to_datetime(cell) == IF cell \in DOMAIN DateLit THEN Some(DateLit[cell]) ELSE None

\* astype(str): an empty cell was read as NaN and prints as 'nan'.
astype_str(cell) == IF cell = "" THEN "nan" ELSE cell

\* str.strip() on the strings of the model.
strip(s) ==
    CASE s = " A " -> "A"
      [] s = " Drama" -> "Drama"
      [] s = " Action" -> "Action"
      [] s = "  " -> ""
      [] s = " " -> ""
      [] OTHER -> s

\* astype(str).str.strip() then replace(['nan', 'None', ''], None).
clean_text(cell) ==
    LET s == strip(astype_str(cell))
    IN  IF s \in {"nan", "None", ""} THEN None ELSE Some(s)

\* int(x) of a float kept in tenths.
int(x) == x \div 10

\* The director name of the model that is longer than the director columns.
LongName == "Q301"

\* len(s) for the strings of the model.
strlen(s) == IF s = LongName THEN 301 ELSE 5

\* s[:300] for the strings of the model.
prefix300(s) == IF strlen(s) > 300 THEN "Q300" ELSE s

\* str.split(',') on the strings of the model.
split_comma(s) ==
    CASE s = "Drama, Action" -> <<"Drama", " Action">>
      [] s = "Drama,Drama" -> <<"Drama", "Drama">>
      [] s = "Drama, " -> <<"Drama", " ">>
      [] OTHER -> <<s>>

(***************************************************************************)
(* transform(): rows and frames.                                            *)
(***************************************************************************)

\* Steps 2-5 of transform() on one row of top_rated_movies.csv.
transform_top_row(r) ==
    [id           |-> to_numeric(r.id),
     title        |-> clean_text(r.title),
     overview     |-> clean_text(r.overview),
     release_date |-> to_datetime(r.release_date),
     popularity   |-> to_numeric(r.popularity),
     vote_average |-> to_numeric(r.vote_average),
     vote_count   |-> to_numeric(r.vote_count)]

\* Steps 2 and 5 of transform() on one row of movies_id_genre_director_.csv.
transform_gd_row(r) ==
    [id       |-> to_numeric(r.id),
     genre    |-> clean_text(r.genre),
     director |-> clean_text(r.director)]

\* A drop_duplicates that drops nothing.
keep_duplicates(df) == df

\* drop_duplicates(subset=['id'], keep='first'): NaN ids count as equal.
RECURSIVE drop_duplicates(_)
drop_duplicates(df) ==
    IF df = <<>> THEN <<>>
    ELSE LET n == Len(df)
             front == drop_duplicates(SubSeq(df, 1, n - 1))
         IN  IF \E i \in 1..(n - 1) : df[i].id = df[n].id
             THEN front
             ELSE Append(front, df[n])

\* dropna() without subset: a row with any absent value is dropped.
dropna_any(df) == SelectSeq(df, LAMBDA r : \A f \in DOMAIN r : notna(r[f]))

\* dropna(subset=['id']).
dropna(df) == SelectSeq(df, LAMBDA r : notna(r.id))

\* The whole of transform() on one frame, given its row conversion.
transform_top(df) ==
    dropna(drop_duplicates([i \in 1..Len(df) |-> transform_top_row(df[i])]))

transform_gd(df) ==
    dropna(drop_duplicates([i \in 1..Len(df) |-> transform_gd_row(df[i])]))

(***************************************************************************)
(* load_unify(): pd.merge(df_top_rated, df_genre_director, on='id',         *)
(* how='left'), the column order, and NaT to None.                          *)
(***************************************************************************)

\* One merged row, in column_order; g is the matching right row or absent.
unified_row(l, g) ==
    [id           |-> l.id,
     title        |-> l.title,
     genre        |-> IF g = None THEN None ELSE g[1].genre,
     director     |-> IF g = None THEN None ELSE g[1].director,
     overview     |-> l.overview,
     release_date |-> l.release_date,
     popularity   |-> l.popularity,
     vote_average |-> l.vote_average,
     vote_count   |-> l.vote_count]

\* how='inner': a left row that matches nothing yields no row.
RECURSIVE merge_inner(_, _)
merge_inner(left, right) ==
    IF left = <<>> THEN <<>>
    ELSE LET l == Head(left)
             m == SelectSeq(right, LAMBDA g : g.id = l.id)
         IN  [i \in 1..Len(m) |-> unified_row(l, Some(m[i]))]
             \o merge_inner(Tail(left), right)

\* Left outer join on id: left order kept, one row per matching right row,
\* one row with absent right columns when nothing matches.
RECURSIVE merge(_, _)
merge(left, right) ==
    IF left = <<>> THEN <<>>
    ELSE LET l == Head(left)
             m == SelectSeq(right, LAMBDA g : g.id = l.id)
             rows == IF m = <<>>
                     THEN <<unified_row(l, None)>>
                     ELSE [i \in 1..Len(m) |-> unified_row(l, Some(m[i]))]
         IN  rows \o merge(Tail(left), right)

(***************************************************************************)
(* build_genre_director_stats().                                            *)
(***************************************************************************)

\* dropna, str.split(','), explode, str.strip and the != '' filter on a
\* sequence of optional strings: the names, one entry per occurrence.
RECURSIVE explode(_)
explode(col) ==
    IF col = <<>> THEN <<>>
    ELSE LET parts == IF notna(Head(col)) THEN split_comma(Head(col)[1]) ELSE <<>>
             names == [i \in 1..Len(parts) |-> strip(parts[i])]
         IN  SelectSeq(names, LAMBDA s : s # "") \o explode(Tail(col))

\* value_counts(): name -> number of occurrences.
value_counts(names) ==
    [k \in {names[i] : i \in 1..Len(names)} |->
        Cardinality({i \in 1..Len(names) : names[i] = k})]

build_genre_stats(df) == value_counts(explode([i \in 1..Len(df) |-> df[i].genre]))

build_director_stats(df) ==
    value_counts(explode([i \in 1..Len(df) |-> df[i].director]))

(***************************************************************************)
(* The MySQL side: the tables of create_table() and the upserts.            *)
(***************************************************************************)

\* VARCHAR(300) of director_stats.director, and the 300 of load_to_mysql.
DirectorMax == 300

\* A database right after DROP DATABASE / CREATE DATABASE and create_table().
\* A table is a function from its primary key to the other columns.
EmptyDb == [movies |-> <<>>, genre_stats |-> <<>>, director_stats |-> <<>>]

\* A connect_to_db() that connects to the database as it finds it.
keep_database(db) == db

\* DROP DATABASE IF EXISTS / CREATE DATABASE of connect_to_db().
recreate_database(db) == EmptyDb

\* The tuple load_to_mysql appends to batch_data for one unified row.
batch_tuple(row) ==
    [id           |-> int(row.id[1]),
     title        |-> row.title,
     genre        |-> row.genre,
     director     |-> IF notna(row.director)
                      THEN LET d == strip(row.director[1])
                           IN  Some(IF strlen(d) > DirectorMax THEN prefix300(d) ELSE d)
                      ELSE None,
     overview     |-> row.overview,
     release_date |-> row.release_date,
     popularity   |-> row.popularity,
     vote_average |-> row.vote_average,
     vote_count   |-> IF notna(row.vote_count)
                      THEN Some(int(row.vote_count[1]))
                      ELSE None]

\* The eight non-key columns of a batch tuple.
columns_of(t) ==
    [title        |-> t.title,
     genre        |-> t.genre,
     director     |-> t.director,
     overview     |-> t.overview,
     release_date |-> t.release_date,
     popularity   |-> t.popularity,
     vote_average |-> t.vote_average,
     vote_count   |-> t.vote_count]

\* An ON DUPLICATE KEY UPDATE list without overview = VALUES(overview).
update_without_overview(old, t) ==
    [title        |-> t.title,
     genre        |-> t.genre,
     director     |-> t.director,
     overview     |-> old.overview,
     release_date |-> t.release_date,
     popularity   |-> t.popularity,
     vote_average |-> t.vote_average,
     vote_count   |-> t.vote_count,
     created_at   |-> old.created_at]

\* ON DUPLICATE KEY UPDATE col = VALUES(col) for the eight columns: the row
\* keeps its created_at.
on_duplicate_key_update(old, t) ==
    [title        |-> t.title,
     genre        |-> t.genre,
     director     |-> t.director,
     overview     |-> t.overview,
     release_date |-> t.release_date,
     popularity   |-> t.popularity,
     vote_average |-> t.vote_average,
     vote_count   |-> t.vote_count,
     created_at   |-> old.created_at]

\* insert_query for one tuple at time now.
upsert(movies, t, now) ==
    [k \in DOMAIN movies \cup {t.id} |->
        IF k # t.id THEN movies[k]
        ELSE IF k \in DOMAIN movies
             THEN on_duplicate_key_update(movies[k], t)
             ELSE columns_of(t) @@ [created_at |-> now]]

\* cursor.executemany(insert_query, batch_data): the tuples in order.
RECURSIVE executemany(_, _, _)
executemany(movies, batch_data, now) ==
    IF batch_data = <<>> THEN movies
    ELSE executemany(upsert(movies, Head(batch_data), now), Tail(batch_data), now)

\* title VARCHAR(500) NOT NULL: the statement is refused for a NULL title.
violates_not_null(batch_data) ==
    \E i \in 1..Len(batch_data) : batch_data[i].title = None

\* A rollback that leaves the uncommitted rows in the connection.
rollback_keeps(view, committed) == view

\* connection.rollback(): the connection sees the committed tables again.
rollback(view, committed) == committed

\* executemany of insert_genre / insert_director at time now:
\* movie_count = VALUES(movie_count), updated_at = CURRENT_TIMESTAMP.
upsert_stats(table, stats, now) ==
    [k \in DOMAIN table \cup DOMAIN stats |->
        IF k \in DOMAIN stats
        THEN [movie_count |-> stats[k], updated_at |-> now]
        ELSE table[k]]

\* VARCHAR(200) of genre_stats.genre.
GenreMax == 200

\* genre VARCHAR(200) PRIMARY KEY, director VARCHAR(300) PRIMARY KEY: a longer
\* key is refused.
key_too_long(stats, max) == \E k \in DOMAIN stats : strlen(k) > max

(***************************************************************************)
(* Inputs.                                                                  *)
(***************************************************************************)

\* Sequences over S of length at most n.
SeqUpTo(S, n) == UNION {[1..k -> S] : k \in 0..n}

\* A well-formed row of top_rated_movies.csv, and rows with one cell changed.
GoodCells ==
    [title |-> "A", overview |-> "plot", release_date |-> "1999-05-01",
     popularity |-> "7.5", vote_average |-> "8.1", vote_count |-> "500"]

TopCells ==
    {GoodCells,
     [GoodCells EXCEPT !.release_date = "not a date"],
     [GoodCells EXCEPT !.popularity = "abc"],
     [GoodCells EXCEPT !.vote_average = "n/a"],
     [GoodCells EXCEPT !.vote_count = "many"],
     [GoodCells EXCEPT !.title = ""],
     [GoodCells EXCEPT !.title = " A ", !.overview = "",
                       !.release_date = "May 1, 1999"]}

\* Ids 1 and 1.5 with every kind of row; 1.0 (the same number as 1), 2 and an
\* unparsable id with the well-formed row.
TopRows ==
    {[id |-> i] @@ c : i \in {"1", "1.5"}, c \in TopCells}
    \cup {[id |-> i] @@ GoodCells : i \in {"1.0", "2", "x"}}

\* Rows of movies_id_genre_director_.csv: id 1 is rated, id 3 is not.
GdRows ==
    {[id |-> "1", genre |-> "Drama, Action", director |-> "X"],
     [id |-> "1", genre |-> "", director |-> LongName],
     [id |-> "3", genre |-> "Drama, Action", director |-> "X"],
     [id |-> "x", genre |-> "Drama, Action", director |-> "X"]}

\* A file: unreadable, or its data rows (none when only the header is there).
TopFiles ==
    {[readable |-> FALSE, rows |-> <<>>]}
    \cup {[readable |-> TRUE, rows |-> r] : r \in SeqUpTo(TopRows, MaxTopRows)}

GdFiles ==
    {[readable |-> FALSE, rows |-> <<>>]}
    \cup {[readable |-> TRUE, rows |-> r] : r \in SeqUpTo(GdRows, MaxGdRows)}

\* What earlier runs, or anybody else, left in the database.
StaleRow ==
    [title |-> Some("Old"), genre |-> Some("Western"), director |-> Some("Z"),
     overview |-> None, release_date |-> None, popularity |-> Some(11),
     vote_average |-> Some(22), vote_count |-> Some(3), created_at |-> 0]

StaleDb ==
    [movies         |-> [k \in {1, 9} |-> StaleRow],
     genre_stats    |-> [k \in {"Western"} |-> [movie_count |-> 2, updated_at |-> 0]],
     director_stats |-> [k \in {"Z"} |-> [movie_count |-> 2, updated_at |-> 0]]]

NoRun ==
    [ret |-> "none", clock |-> 0, df_unified |-> <<>>, server |-> EmptyDb,
     batch_log |-> <<>>]

(***************************************************************************)
(* The state after MoviesETL(...) is constructed.                           *)
(***************************************************************************)
Init ==
    /\ top_file \in TopFiles
    /\ gd_file \in GdFiles
    /\ batch_size \in 1..MaxBatchSize
    /\ truncate \in BOOLEAN
    /\ pc = "idle"
    /\ ret = "none"
    /\ clock = 0
    /\ server \in {EmptyDb, StaleDb}
    /\ txn = server
    /\ df_top_rated = <<>>
    /\ df_genre_director = <<>>
    /\ df_unified = <<>>
    /\ genre_stats = <<>>
    /\ director_stats = <<>>
    /\ start_idx = 0
    /\ inserted = 0
    /\ errors = 0
    /\ batch_log = <<>>
    /\ prev = NoRun

inputs == <<top_file, gd_file, batch_size, truncate>>
frames == <<df_top_rated, df_genre_director, df_unified, genre_stats, director_stats>>
loop == <<start_idx, inserted, errors, batch_log>>

(***************************************************************************)
(* run() and the steps it calls.                                            *)
(***************************************************************************)

\* return v from run(): the finally clause closes the connection, and the
\* work it had not committed is lost.
Return(v, committed) ==
    /\ ret' = v
    /\ pc' = "idle"
    /\ server' = committed
    /\ txn' = committed

\* A new MoviesETL object is constructed and run() is called.
StartRun ==
    /\ pc = "idle"
    /\ clock < MaxRuns
    /\ clock' = clock + 1
    /\ pc' = "connect"
    /\ ret' = "none"
    /\ prev' = IF ret = "True"
               THEN [ret |-> ret, clock |-> clock, df_unified |-> df_unified,
                     server |-> server, batch_log |-> batch_log]
               ELSE prev
    /\ df_top_rated' = <<>>
    /\ df_genre_director' = <<>>
    /\ df_unified' = <<>>
    /\ genre_stats' = <<>>
    /\ director_stats' = <<>>
    /\ start_idx' = 0
    /\ inserted' = 0
    /\ errors' = 0
    /\ batch_log' = <<>>
    /\ UNCHANGED <<inputs, server, txn>>

\* connect_to_db(): drop and recreate the database, then connect to it.  The
\* server may refuse the first connection, or the second one.
ConnectToDb ==
    /\ pc = "connect"
    /\ \E fault \in {"none", "first", "second"} :
          CASE fault = "none" ->
                  /\ server' = recreate_database(server)
                  /\ txn' = recreate_database(server)
                  /\ pc' = "create"
                  /\ ret' = ret
            [] fault = "first" -> Return("False", server)
            [] fault = "second" -> Return("False", recreate_database(server))
    /\ UNCHANGED <<inputs, clock, frames, loop, prev>>

\* create_table(): CREATE TABLE IF NOT EXISTS for the three tables.
CreateTable ==
    /\ pc = "create"
    /\ \E fault \in BOOLEAN :
          IF fault
          THEN Return("False", server)
          ELSE /\ pc' = "extract"
               /\ UNCHANGED <<ret, server, txn>>
    /\ UNCHANGED <<inputs, clock, frames, loop, prev>>

\* extract(): read both files; any exception makes it return False.
Extract ==
    /\ pc = "extract"
    /\ IF top_file.readable /\ gd_file.readable
       THEN /\ df_top_rated' = top_file.rows
            /\ df_genre_director' = gd_file.rows
            /\ pc' = "transform"
            /\ UNCHANGED <<ret, server, txn>>
       ELSE /\ df_top_rated' = IF top_file.readable THEN top_file.rows ELSE <<>>
            /\ df_genre_director' = <<>>
            /\ Return("False", server)
    /\ UNCHANGED <<inputs, clock, df_unified, genre_stats, director_stats, loop, prev>>

\* transform().
Transform ==
    /\ pc = "transform"
    /\ df_top_rated' = transform_top(df_top_rated)
    /\ df_genre_director' = transform_gd(df_genre_director)
    /\ pc' = "unify"
    /\ UNCHANGED <<inputs, ret, clock, server, txn, df_unified, genre_stats,
                   director_stats, loop, prev>>

\* load_unify().
LoadUnify ==
    /\ pc = "unify"
    /\ df_unified' = merge(df_top_rated, df_genre_director)
    /\ pc' = "load"
    /\ UNCHANGED <<inputs, ret, clock, server, txn, df_top_rated,
                   df_genre_director, genre_stats, director_stats, loop, prev>>

\* load_to_mysql() up to its loop: the optional TRUNCATE and the counters.
LoadStart ==
    /\ pc = "load"
    /\ IF truncate
       THEN /\ server' = [txn EXCEPT !.movies = <<>>]
            /\ txn' = [txn EXCEPT !.movies = <<>>]
       ELSE UNCHANGED <<server, txn>>
    /\ start_idx' = 0
    /\ inserted' = 0
    /\ errors' = 0
    /\ batch_log' = <<>>
    /\ pc' = "batch"
    /\ UNCHANGED <<inputs, ret, clock, frames, prev>>

\* One iteration of the loop of load_to_mysql(): build batch_data, then
\* executemany and commit, or rollback when either raises Error.
LoadBatch ==
    /\ pc = "batch"
    /\ start_idx < Len(df_unified)
    /\ LET total_rows == Len(df_unified)
           end_idx == IF start_idx + batch_size < total_rows
                      THEN start_idx + batch_size ELSE total_rows
           batch == SubSeq(df_unified, start_idx + 1, end_idx)
           batch_data == [i \in 1..Len(batch) |-> batch_tuple(batch[i])]
           number == (start_idx \div batch_size) + 1
       IN  \E fault \in {"none", "executemany", "commit"} :
              LET refused == fault = "executemany" \/ violates_not_null(batch_data)
                  view == IF refused THEN txn
                          ELSE [txn EXCEPT !.movies = executemany(@, batch_data, clock)]
              IN  IF ~refused /\ fault = "none"
                  THEN /\ server' = view
                       /\ txn' = view
                       /\ inserted' = inserted + Len(batch_data)
                       /\ errors' = errors
                       /\ batch_log' = Append(batch_log,
                              [batch |-> number, rows |-> Len(batch_data), error |-> "none"])
                  ELSE /\ server' = server
                       /\ txn' = rollback(view, server)
                       /\ inserted' = inserted
                       /\ errors' = errors + Len(batch_data)
                       /\ batch_log' = Append(batch_log,
                              [batch |-> number, rows |-> Len(batch_data),
                               error |-> IF violates_not_null(batch_data)
                                         THEN "title cannot be null"
                                         ELSE "server"])
    /\ start_idx' = start_idx + batch_size
    /\ UNCHANGED <<inputs, pc, ret, clock, frames, prev>>

\* The loop of load_to_mysql() is over: it returns True.
LoadEnd ==
    /\ pc = "batch"
    /\ start_idx >= Len(df_unified)
    /\ pc' = "stats"
    /\ UNCHANGED <<inputs, ret, clock, server, txn, frames, loop, prev>>

\* build_genre_director_stats().
BuildStats ==
    /\ pc = "stats"
    /\ genre_stats' = build_genre_stats(df_unified)
    /\ director_stats' = build_director_stats(df_unified)
    /\ pc' = "load_stats"
    /\ UNCHANGED <<inputs, ret, clock, server, txn, df_top_rated,
                   df_genre_director, df_unified, loop, prev>>

\* load_stats_to_mysql(): optional TRUNCATE, two executemany, one commit.  An
\* Error it raises reaches the except clause of run().
LoadStats ==
    /\ pc = "load_stats"
    /\ LET base == IF truncate
                   THEN [txn EXCEPT !.genre_stats = <<>>, !.director_stats = <<>>]
                   ELSE txn
           committed == IF truncate THEN base ELSE server
           view == [base EXCEPT
                      !.genre_stats = upsert_stats(@, genre_stats, clock),
                      !.director_stats = upsert_stats(@, director_stats, clock)]
       IN  \E fault \in BOOLEAN :
              IF \/ fault
                 \/ key_too_long(genre_stats, GenreMax)
                 \/ key_too_long(director_stats, DirectorMax)
              THEN Return("False", committed)
              ELSE /\ server' = view
                   /\ txn' = view
                   /\ pc' = "validate"
                   /\ ret' = ret
    /\ UNCHANGED <<inputs, clock, frames, loop, prev>>

\* validate_load() only reads; then run() returns True.
Validate ==
    /\ pc = "validate"
    /\ Return("True", server)
    /\ UNCHANGED <<inputs, clock, frames, loop, prev>>

Next ==
    \/ StartRun
    \/ ConnectToDb
    \/ CreateTable
    \/ Extract
    \/ Transform
    \/ LoadUnify
    \/ LoadStart
    \/ LoadBatch
    \/ LoadEnd
    \/ BuildStats
    \/ LoadStats
    \/ Validate

Spec == Init /\ [][Next]_vars

(***************************************************************************)
(* The same program on inputs chosen for build_genre_director_stats():      *)
(* well-formed ratings rows with ids 1 and 2, and metadata rows whose genre *)
(* and director cells hold one name, several names, the same name twice, an *)
(* empty part, or nothing.                                                  *)
(***************************************************************************)
StatsTopRows == {[id |-> i] @@ GoodCells : i \in {"1", "2"}}

StatsGdRows ==
    {[id |-> i, genre |-> c[1], director |-> c[2]] :
        i \in {"1", "2"},
        c \in {<<"Drama, Action", "X">>,
               <<"Drama,Drama", "X">>,
               <<"Drama, ", "">>,
               <<"", "X">>}}

InitStats ==
    /\ top_file \in {[readable |-> TRUE, rows |-> r] :
                        r \in SeqUpTo(StatsTopRows, MaxTopRows)}
    /\ gd_file \in {[readable |-> TRUE, rows |-> r] :
                       r \in SeqUpTo(StatsGdRows, MaxGdRows)}
    /\ batch_size \in 1..MaxBatchSize
    /\ truncate \in BOOLEAN
    /\ pc = "idle"
    /\ ret = "none"
    /\ clock = 0
    /\ server \in {EmptyDb, StaleDb}
    /\ txn = server
    /\ df_top_rated = <<>>
    /\ df_genre_director = <<>>
    /\ df_unified = <<>>
    /\ genre_stats = <<>>
    /\ director_stats = <<>>
    /\ start_idx = 0
    /\ inserted = 0
    /\ errors = 0
    /\ batch_log = <<>>
    /\ prev = NoRun

SpecStats == InitStats /\ [][Next]_vars

(***************************************************************************)
(* Definitions shared by the properties.                                    *)
(***************************************************************************)

\* The loop of load_to_mysql is running, or is over in the current run.
in_loop == pc = "batch"
after_loop == pc \in {"stats", "load_stats", "validate"}
completed == pc = "idle" /\ ret = "True"

\* The number of batches range(0, total_rows, batch_size) yields.
num_batches == (Len(df_unified) + batch_size - 1) \div batch_size

\* The tuples of batch b (1-based), as load_to_mysql builds them.
tuples_of_batch(b) ==
    LET first == (b - 1) * batch_size + 1
        last == IF b * batch_size < Len(df_unified)
                THEN b * batch_size ELSE Len(df_unified)
    IN  [i \in 1..(last - first + 1) |-> batch_tuple(df_unified[first + i - 1])]

committed_batches == {b \in 1..Len(batch_log) : batch_log[b].error = "none"}
failed_batches == {b \in 1..Len(batch_log) : batch_log[b].error # "none"}

\* The eight non-key columns of a row of movies.
columns_of_row(row) == [f \in DOMAIN row \ {"created_at"} |-> row[f]]

(***************************************************************************)
(* C1.  In load_to_mysql, whatever batches fail: the batches are attempted  *)
(* one after the other in order and all of them by the end of the loop; a   *)
(* failed batch leaves none of its rows in movies (every row of movies is   *)
(* the tuple of a batch that committed); the rows of every batch that       *)
(* committed, before or after a failed one, are in movies.                  *)
(***************************************************************************)
C1_BatchesFailIndependently ==
    (in_loop \/ after_loop \/ completed) =>
        /\ \A b \in 1..Len(batch_log) : batch_log[b].batch = b
        /\ start_idx = Len(batch_log) * batch_size
        /\ ~in_loop => Len(batch_log) = num_batches
        /\ \A k \in DOMAIN server.movies :
              \E b \in committed_batches :
                 \E i \in 1..Len(tuples_of_batch(b)) :
                    /\ tuples_of_batch(b)[i].id = k
                    /\ columns_of_row(server.movies[k]) = columns_of(tuples_of_batch(b)[i])
        /\ \A b \in committed_batches :
              \A i \in 1..Len(tuples_of_batch(b)) :
                 tuples_of_batch(b)[i].id \in DOMAIN server.movies

\* The first batch was refused by the server and the second one committed:
\* only the row of the second is in movies.
C1_Witness ==
    /\ after_loop
    /\ Len(batch_log) = 2
    /\ batch_log[1].error = "server"
    /\ batch_log[2].error = "none"
    /\ tuples_of_batch(1)[1].id # tuples_of_batch(2)[1].id
    /\ DOMAIN server.movies = {tuples_of_batch(2)[1].id}

(***************************************************************************)
(* C2.  After a run that returned True, every row of movies was inserted    *)
(* by that run: no row that was in the database before the run survives,    *)
(* whatever was there and whatever truncate is.                             *)
(***************************************************************************)
C2_NoStaleRowSurvives ==
    completed =>
        \A k \in DOMAIN server.movies : server.movies[k].created_at = clock

\* The second run, without truncate, ends with a row under a key that the
\* first run had left in the table.
C2_Witness ==
    /\ completed
    /\ clock = 2
    /\ ~truncate
    /\ \E k \in DOMAIN server.movies : k \in DOMAIN prev.server.movies

\* The tuples of the committed batches among the first n, in upsert order.
RECURSIVE committed_tuples(_)
committed_tuples(n) ==
    IF n = 0 THEN <<>>
    ELSE committed_tuples(n - 1)
         \o (IF batch_log[n].error = "none" THEN tuples_of_batch(n) ELSE <<>>)

\* The last tuple of seq whose id is k.
last_with_id(seq, k) ==
    LET n == CHOOSE i \in 1..Len(seq) :
                /\ seq[i].id = k
                /\ \A j \in (i + 1)..Len(seq) : seq[j].id # k
    IN  seq[n]

(***************************************************************************)
(* C3.  The movies upsert is keyed by id and the last write wins: movies    *)
(* holds exactly one row for each id among the tuples upserted by the       *)
(* batches that committed, and its eight non-key columns are those of the   *)
(* last such tuple with that id, absent values included.                    *)
(***************************************************************************)
C3_LastWriteWins ==
    (in_loop \/ after_loop \/ completed) =>
        LET written == committed_tuples(Len(batch_log))
        IN  /\ DOMAIN server.movies = {written[i].id : i \in 1..Len(written)}
            /\ \A k \in DOMAIN server.movies :
                  columns_of_row(server.movies[k]) = columns_of(last_with_id(written, k))

\* Two committed tuples with the same id, the first with an overview and the
\* second without: the row has no overview.
C3_Witness ==
    /\ after_loop
    /\ LET written == committed_tuples(Len(batch_log))
       IN  /\ Len(written) = 2
           /\ written[1].id = written[2].id
           /\ written[1].overview # None
           /\ written[2].overview = None
           /\ server.movies[written[1].id].overview = None

\* df_unified holds the unified record set of the current run.
unified_known == pc \in {"load", "batch", "stats", "load_stats", "validate"} \/ completed

\* The ids of a frame, in row order.
ids_of(df) == [i \in 1..Len(df) |-> df[i].id]

C5_UnifiedIdsUnique ==
    unified_known =>
        /\ \A i \in 1..Len(df_unified) : notna(df_unified[i].id)
        /\ \A i, j \in 1..Len(df_unified) :
              i # j => df_unified[i].id # df_unified[j].id

\* Two ratings rows that spell the same id differently, two metadata rows
\* with that id, one unified row.
C5_Witness ==
    /\ unified_known
    /\ Len(top_file.rows) = 2
    /\ top_file.rows[1].id # top_file.rows[2].id
    /\ Len(gd_file.rows) = 2
    /\ to_numeric(gd_file.rows[1].id) = to_numeric(gd_file.rows[2].id)
    /\ Len(df_unified) = 1
    /\ df_unified[1].genre # None

(***************************************************************************)
(* C6 as stated.  When a source file is unreadable or a source table has    *)
(* no data rows, run returns False.                                         *)
(***************************************************************************)
C6_StructuralFailureIsFatal ==
    (/\ pc = "idle"
     /\ ret # "none"
     /\ \/ ~top_file.readable
        \/ ~gd_file.readable
        \/ top_file.rows = <<>>
        \/ gd_file.rows = <<>>)
    => ret = "False"

(***************************************************************************)
(* C7 as stated.  When run returns False, it has committed no row of        *)
(* movies and no row of genre_stats or director_stats.                      *)
(***************************************************************************)
C7_FailsBeforeAnyOutput ==
    (pc = "idle" /\ ret = "False") =>
        /\ \A k \in DOMAIN server.movies : server.movies[k].created_at # clock
        /\ \A k \in DOMAIN server.genre_stats :
              server.genre_stats[k].updated_at # clock
        /\ \A k \in DOMAIN server.director_stats :
              server.director_stats[k].updated_at # clock

\* The rows of the batches logged as committed (ok) or as failed (~ok).
RECURSIVE rows_logged(_, _)
rows_logged(n, ok) ==
    IF n = 0 THEN 0
    ELSE rows_logged(n - 1, ok)
         + (IF (batch_log[n].error = "none") = ok THEN batch_log[n].rows ELSE 0)

(***************************************************************************)
(* C8 as stated.  When the loop of load_to_mysql is over, inserted plus     *)
(* errors is the number of unified rows, inserted counts the rows of the    *)
(* batches that committed and errors those of the batches rolled back, and  *)
(* inserted is the number of rows of this run in movies.                    *)
(***************************************************************************)
C8_CountsMatchTable ==
    after_loop =>
        /\ inserted + errors = Len(df_unified)
        /\ inserted = rows_logged(Len(batch_log), TRUE)
        /\ errors = rows_logged(Len(batch_log), FALSE)
        /\ inserted = Cardinality({k \in DOMAIN server.movies :
                                      server.movies[k].created_at = clock})

\* The same, for the runs in which no two unified rows have the same int(id).
C8_CountsMatchTableDistinctKeys ==
    (\A i, j \in 1..Len(df_unified) :
        i # j => int(df_unified[i].id[1]) # int(df_unified[j].id[1]))
    => C8_CountsMatchTable

\* The tables with their timestamps counted from the start of run number run.
since(db, run) ==
    [movies |-> [k \in DOMAIN db.movies |->
                    [db.movies[k] EXCEPT !.created_at = @ - run]],
     genre_stats |-> [k \in DOMAIN db.genre_stats |->
                    [db.genre_stats[k] EXCEPT !.updated_at = @ - run]],
     director_stats |-> [k \in DOMAIN db.director_stats |->
                    [db.director_stats[k] EXCEPT !.updated_at = @ - run]]]

MalformedCells == {"not a date", "abc", "n/a", "many"}
CellFields == {"release_date", "popularity", "vote_average", "vote_count"}

\* The raw row with its malformed cells replaced by well-formed ones.
repaired(r) ==
    [f \in DOMAIN r |->
        IF f \in CellFields /\ r[f] \in MalformedCells THEN GoodCells[f] ELSE r[f]]

\* What the unified row of raw row r has to be in the columns of r.
expected_unified(r) ==
    [f \in DOMAIN r |->
        IF f \in CellFields /\ r[f] \in MalformedCells
        THEN None
        ELSE transform_top_row(repaired(r))[f]]

\* The raw ratings rows with a valid id that are the first of their id.
kept_raw_rows ==
    {i \in 1..Len(top_file.rows) :
        /\ notna(to_numeric(top_file.rows[i].id))
        /\ \A j \in 1..(i - 1) :
              to_numeric(top_file.rows[j].id) # to_numeric(top_file.rows[i].id)}

C12_IntKeysDistinct ==
    /\ unified_known =>
          \A i, j \in 1..Len(df_unified) :
             i # j => int(df_unified[i].id[1]) # int(df_unified[j].id[1])
    /\ (after_loop \/ completed) =>
          Cardinality(DOMAIN server.movies) = Len(committed_tuples(Len(batch_log)))

\* genre_stats and director_stats hold the counts of the current run.
stats_known == pc \in {"load_stats", "validate"} \/ completed

\* The comma-separated field lists the name g.
lists(field, g) ==
    /\ notna(field)
    /\ \E i \in 1..Len(split_comma(field[1])) : strip(split_comma(field[1])[i]) = g

\* The non-empty trimmed names that the fields of a column list.
names_listed(col) ==
    UNION {{strip(split_comma(col[i][1])[n]) : n \in 1..Len(split_comma(col[i][1]))} :
              i \in {j \in 1..Len(col) : notna(col[j])}} \ {""}

\* stats counts, for every name, the rows of col that list it.
counts_rows(stats, col) ==
    /\ DOMAIN stats = names_listed(col)
    /\ \A g \in DOMAIN stats :
          stats[g] = Cardinality({i \in 1..Len(col) : lists(col[i], g)})

\* No field of the column lists the same name twice.
no_repeats(col) ==
    \A i \in 1..Len(col) :
       notna(col[i]) =>
          \A m, n \in 1..Len(split_comma(col[i][1])) :
             (m # n /\ strip(split_comma(col[i][1])[m]) # "")
             => strip(split_comma(col[i][1])[m]) # strip(split_comma(col[i][1])[n])

(***************************************************************************)
(* C11 as stated.  build_genre_director_stats counts each movie once per    *)
(* individual genre and director: the movie_count of every non-empty        *)
(* trimmed name is the number of unified movies whose comma-separated field *)
(* lists it; a movie whose field is absent or empty counts for nothing; no  *)
(* stats row has an empty or absent key.                                    *)
(***************************************************************************)
C11_CountsEachMovieOnce ==
    stats_known =>
        /\ counts_rows(genre_stats, [i \in 1..Len(df_unified) |-> df_unified[i].genre])
        /\ counts_rows(director_stats,
                       [i \in 1..Len(df_unified) |-> df_unified[i].director])
        /\ "" \notin DOMAIN genre_stats
        /\ "" \notin DOMAIN director_stats

\* The same, for the runs in which no field lists a name twice.
C11_CountsEachMovieOnceNoRepeats ==
    (/\ no_repeats([i \in 1..Len(df_unified) |-> df_unified[i].genre])
     /\ no_repeats([i \in 1..Len(df_unified) |-> df_unified[i].director]))
    => C11_CountsEachMovieOnce

====
